---- MODULE Spec2Model ----
(***************************************************************************)
(* go-nested: the Monitor state machine (Initializing, Ready, Error,       *)
(* Stopped) with its observer fan-out, in the variants found in the        *)
(* repository:                                                             *)
(*   "errcount"     src/unnamed/part_001:1-138   callbacks + errCount      *)
(*   "identity"     src/monitor.go               callbacks, error identity *)
(*   "subscription" src/unnamed/part_001:250-361 SetState + channels       *)
(* and the Collection of src/unnamed/part_003, whose embedded Monitor and  *)
(* whose members are Monitors of the callback variants.                    *)
(*                                                                         *)
(* A critical section (m.Lock() ... deferred m.Unlock()) is one atomic     *)
(* step.  The goroutines a transition starts, and the caller's wg.Wait(),  *)
(* are separate steps.                                                     *)
(***************************************************************************)
EXTENDS Integers, Sequences, FiniteSets, TLC

VARIABLES
    variant,    \* which Monitor source is running
    state,      \* Monitor.state
    err,        \* Monitor.err
    errCount,   \* Monitor.errCount (stays 0 where the variant has no such field)
    callbacks,  \* Monitor.callbacks / Monitor.subscriptions: handle -> observer
    mu,         \* Monitor's sync.Mutex: 0 when free, else the call holding it
    calls,      \* the transition calls now in wg.Wait(), by their place in history
    inflight,   \* notification goroutines started and not yet finished
    received,   \* per observer: the events it has finished handling
    handled,    \* per observer: how many events it has finished handling
    history,    \* every transition call made so far, in commit order
    nObs,       \* observers created so far (observer identities are 1..nObs)
    regAt,      \* per observer: Len(history) when it was registered
    deregAt,    \* per observer: the last call whose event it is due, or NotYet
    services,   \* Collection.services: label -> the service bound to it, or NoService
    running,    \* Collection.running
    member,     \* the Monitors that can be added to the Collection
    notes,      \* member callbacks started and still to enter Collection.stateChanged
    sc,         \* the stateChanged call holding the Collection's lock, or the last one
    runs,       \* Run() calls made / past their critical section and still to recompute
    adds,       \* Add() calls refused so far, and the last of them
    memberCalls,\* transition calls made on the members
    crashed,    \* a panic has left a goroutine that nobody recovers
    stopc,      \* the Collection.Stop() call: where it is and what it waits for
    ups,        \* what the last Up() call returned
    reent,      \* the callbacks waiting in a transition call they made on the Monitor
    ch,         \* the Collection of collection.go: its update channel, loop and Stop()
    sb,         \* a Monitor subscribed to by id, and what was called on it so far
    rg          \* a Monitor's callback registry, and who holds which token

monVars == <<variant, state, err, errCount, callbacks, mu, calls, inflight,
             received, handled, history, nObs, regAt, deregAt>>
\* what Add, Run and stateChanged never touch
restVars == <<ups, reent, ch, sb, rg>>
colVars == <<services, running, member, notes, sc, runs, adds, memberCalls, crashed,
             stopc, ups, reent, ch, sb, rg>>
vars == <<variant, state, err, errCount, callbacks, mu, calls, inflight,
          received, handled, history, nObs, regAt, deregAt,
          services, running, member, notes, sc, runs, adds, memberCalls, crashed,
          stopc, ups, reent, ch, sb, rg>>

-----------------------------------------------------------------------------
(* Bounds of the model *)

NumCallers == 2
MaxCalls == 2
MaxObs == 1
NumTokens == 1
MaxMemberCalls == 1
MaxRuns == 2
MaxDupAdds == 1
MaxStops == 2
NumChannels == 2
MaxToken == 3
NumFuncs == 2

-----------------------------------------------------------------------------
(* The State enumeration and its names *)

Initializing == 0
Ready == 1
Error == 2
Stopped == 3

names == {Initializing, Ready, Error, Stopped}

\* int8 values that are no State
UndefinedStates == {-1, 4}

MaxInt == 2147483647

(* An error value is its dynamic type and what it holds, as in a Go         *)
(* interface.  errors.New gives a pointer; its text stands for the pointer. *)
Nil == [type |-> "nil"]
errorString(text) == [type |-> "*errors.errorString", s |-> text]
Errs == {errorString("e1"), errorString("e2")}

\* == and != on two interfaces holding the same uncomparable type panic
Uncomparable(a, b) == a.type = "CollectionError" /\ b.type = "CollectionError"
UncomparablePanic == "panic: runtime error: comparing uncomparable type"

Observers == 1..MaxObs
TokenSpace == 0..(NumTokens - 1)
NoCb == 0
\* later than any call: the observer is still to be registered, or removed
NotYet == MaxCalls + 1
NoEvent == [none |-> TRUE]

-----------------------------------------------------------------------------
(* Monitor.setState, one operator per source variant.  m is the Monitor    *)
(* [state, err, errCount, callbacks]; the result is the Monitor after the  *)
(* critical section, how the call ended, and the event built.              *)

Result(m, outcome, ev) == [m |-> m, outcome |-> outcome, ev |-> ev]

\* setState building its event after the assignment to m.state
setState_errCount_staleEvent(m, newState, newErr) ==
    IF newState = m.state /\ newState # Error
    THEN Result(m, "noop", NoEvent)
    ELSE LET cnt == IF newState = Error
                    THEN (IF m.errCount < MaxInt THEN m.errCount + 1 ELSE m.errCount)
                    ELSE 0
             counted == [m EXCEPT !.errCount = cnt]
         IN  IF m.state = Stopped
             THEN Result(counted, "panic: cannot transition from stopped state", NoEvent)
             ELSE Result([counted EXCEPT !.state = newState,
                                         !.err = IF newState = Error THEN newErr ELSE m.err],
                         "accepted",
                         [OldState |-> newState, NewState |-> newState,
                          Error |-> newErr, ErrCount |-> cnt])

\* setState that never resets the error count
setState_errCount_noReset(m, newState, newErr) ==
    IF newState = m.state /\ newState # Error
    THEN Result(m, "noop", NoEvent)
    ELSE LET cnt == IF newState = Error
                    THEN (IF m.errCount < MaxInt THEN m.errCount + 1 ELSE m.errCount)
                    ELSE m.errCount
             counted == [m EXCEPT !.errCount = cnt]
         IN  IF m.state = Stopped
             THEN Result(counted, "panic: cannot transition from stopped state", NoEvent)
             ELSE Result([counted EXCEPT !.state = newState,
                                         !.err = IF newState = Error THEN newErr ELSE m.err],
                         "accepted",
                         [OldState |-> m.state, NewState |-> newState,
                          Error |-> newErr, ErrCount |-> cnt])

\* setState in which Stop puts the zero State back
setState_errCount_zeroOnStop(m, newState, newErr) ==
    IF newState = m.state /\ newState # Error
    THEN Result(m, "noop", NoEvent)
    ELSE LET cnt == IF newState = Error
                    THEN (IF m.errCount < MaxInt THEN m.errCount + 1 ELSE m.errCount)
                    ELSE 0
             counted == [m EXCEPT !.errCount = cnt]
         IN  IF m.state = Stopped
             THEN Result(counted, "panic: cannot transition from stopped state", NoEvent)
             ELSE Result([counted EXCEPT !.state = IF newState = Stopped
                                                   THEN Initializing ELSE newState,
                                         !.err = IF newState = Error THEN newErr ELSE m.err],
                         "accepted",
                         [OldState |-> m.state, NewState |-> newState,
                          Error |-> newErr, ErrCount |-> cnt])

\* m.errCount++ without the test against math.MaxInt: the int wraps around
setState_errCount_wraps(m, newState, newErr) ==
    IF newState = m.state /\ newState # Error
    THEN Result(m, "noop", NoEvent)
    ELSE LET cnt == IF newState = Error
                    THEN (IF m.errCount < MaxInt THEN m.errCount + 1 ELSE -MaxInt - 1)
                    ELSE 0
             counted == [m EXCEPT !.errCount = cnt]
         IN  IF m.state = Stopped
             THEN Result(counted, "panic: cannot transition from stopped state", NoEvent)
             ELSE Result([counted EXCEPT !.state = newState,
                                         !.err = IF newState = Error THEN newErr ELSE m.err],
                         "accepted",
                         [OldState |-> m.state, NewState |-> newState,
                          Error |-> newErr, ErrCount |-> cnt])

setState_errCount(m, newState, newErr) ==
    IF newState = m.state /\ newState # Error
    THEN Result(m, "noop", NoEvent)
    ELSE LET cnt == IF newState = Error
                    THEN (IF m.errCount < MaxInt THEN m.errCount + 1 ELSE m.errCount)
                    ELSE 0
             counted == [m EXCEPT !.errCount = cnt]
         IN  IF m.state = Stopped
             THEN Result(counted, "panic: cannot transition from stopped state", NoEvent)
             ELSE Result([counted EXCEPT !.state = newState,
                                         !.err = IF newState = Error THEN newErr ELSE m.err],
                         "accepted",
                         [OldState |-> m.state, NewState |-> newState,
                          Error |-> newErr, ErrCount |-> cnt])

\* setState without the check for the stopped state
setState_identity_restartable(m, newState, newErr) ==
    IF newState = m.state /\ ~(newState = Error /\ newErr # m.err)
    THEN Result(m, "noop", NoEvent)
    ELSE Result([m EXCEPT !.state = newState,
                          !.err = IF newState = Error THEN newErr ELSE m.err],
                "accepted",
                [OldState |-> m.state, NewState |-> newState,
                 Error |-> newErr, ErrCount |-> 0])

\* setState assigning m.err on every transition
setState_identity_clearsErr(m, newState, newErr) ==
    IF newState = m.state /\ ~(newState = Error /\ newErr # m.err)
    THEN Result(m, "noop", NoEvent)
    ELSE IF m.state = Stopped
         THEN Result(m, "panic: cannot transition from stopped state", NoEvent)
         ELSE Result([m EXCEPT !.state = newState, !.err = newErr],
                     "accepted",
                     [OldState |-> m.state, NewState |-> newState,
                      Error |-> newErr, ErrCount |-> 0])

setState_identity(m, newState, newErr) ==
    IF newState = m.state /\ newState = Error /\ Uncomparable(newErr, m.err)
    THEN Result(m, UncomparablePanic, NoEvent)
    ELSE IF newState = m.state /\ ~(newState = Error /\ newErr # m.err)
    THEN Result(m, "noop", NoEvent)
    ELSE IF m.state = Stopped
         THEN Result(m, "panic: cannot transition from stopped state", NoEvent)
         ELSE Result([m EXCEPT !.state = newState,
                               !.err = IF newState = Error THEN newErr ELSE m.err],
                     "accepted",
                     [OldState |-> m.state, NewState |-> newState,
                      Error |-> newErr, ErrCount |-> 0])

\* setState in which Stop is refused like any other call on a stopped Monitor
setState_subscription_stopRefused(m, newState, newErr, ignoreStopped) ==
    IF newState \notin names
    THEN Result(m, "panic: state is undefined", NoEvent)
    ELSE IF newState = m.state /\ newErr = m.err
    THEN Result(m, "noop", NoEvent)
    ELSE IF m.state = Stopped
    THEN Result(m, "panic: cannot transition from stopped state", NoEvent)
    ELSE Result([m EXCEPT !.state = newState, !.err = newErr,
                          !.callbacks = IF newState = Stopped
                                        THEN [t \in TokenSpace |-> NoCb]
                                        ELSE m.callbacks],
                "accepted",
                [State |-> newState, Error |-> newErr])

\* setState without the lookup in names
setState_subscription_unchecked(m, newState, newErr, ignoreStopped) ==
    IF newState = m.state /\ newErr = m.err
    THEN Result(m, "noop", NoEvent)
    ELSE IF m.state = Stopped
    THEN (IF ignoreStopped
          THEN Result(m, "noop", NoEvent)
          ELSE Result(m, "panic: cannot transition from stopped state", NoEvent))
    ELSE Result([m EXCEPT !.state = newState, !.err = newErr,
                          !.callbacks = IF newState = Stopped
                                        THEN [t \in TokenSpace |-> NoCb]
                                        ELSE m.callbacks],
                "accepted",
                [State |-> newState, Error |-> newErr])

setState_subscription(m, newState, newErr, ignoreStopped) ==
    IF newState \notin names
    THEN Result(m, "panic: state is undefined", NoEvent)
    ELSE IF newState = m.state /\ newErr = m.err
    THEN Result(m, "noop", NoEvent)
    ELSE IF m.state = Stopped
    THEN (IF ignoreStopped
          THEN Result(m, "noop", NoEvent)
          ELSE Result(m, "panic: cannot transition from stopped state", NoEvent))
    ELSE Result([m EXCEPT !.state = newState, !.err = newErr,
                          !.callbacks = IF newState = Stopped
                                        THEN [t \in TokenSpace |-> NoCb]
                                        ELSE m.callbacks],
                "accepted",
                [State |-> newState, Error |-> newErr])

\* The exported wrappers: SetReady, SetError, Stop, SetState
setState(v, m, in) ==
    CASE v = "errcount" -> setState_errCount(m, in.newState, in.newErr)
      [] v = "identity" -> setState_identity(m, in.newState, in.newErr)
      [] v = "subscription" ->
            setState_subscription(m, in.newState, in.newErr, in.op = "Stop")

SetReady == [op |-> "SetReady", newState |-> Ready, newErr |-> Nil]
SetError(e) == [op |-> "SetError", newState |-> Error, newErr |-> e]
Stop == [op |-> "Stop", newState |-> Stopped, newErr |-> Nil]
SetState(s, e) == [op |-> "SetState", newState |-> s, newErr |-> e]

CallInputs(v) ==
    IF v = "subscription"
    THEN {SetState(s, e) : s \in {Initializing, Ready, Stopped} \cup UndefinedStates,
                           e \in {Nil, errorString("e1")}} \cup {Stop}
    ELSE {SetReady, Stop} \cup {SetError(e) : e \in Errs}

-----------------------------------------------------------------------------
(* The Collection: its member map, its recomputation and its errors *)

Labels == {"a", "b"}
\* the services there are to add: two, as in TestCollection
Members == {1, 2}
NoService == 0
\* c.id, the random id under which the Collection registers with its members
CollectionId == "c.id"

ErrStoppedServices == errorString("there are stopped services")
CollectionError(errs) == [type |-> "CollectionError", Errors |-> errs]

\* an error whose dynamic type holds a map, as CollectionError does
MapError == CollectionError([l \in {"a"} |-> errorString("e1")])
\* what SetReady, SetError and Stop of monitor.go can be called with: SetError
\* takes any error value
IdentityInputs == CallInputs("identity") \cup {SetError(MapError)}
AllInputs(v) == IF v = "identity" THEN IdentityInputs ELSE CallInputs(v)

\* the error a service reports: service 1 its own, the others a second one
ErrOf(i) == IF i = 1 THEN errorString("e1") ELSE errorString("e2")

\* Add is called with each label for a service of its own, and with the first
\* label for the second service as well
OwnAdds == {<<"a", 1>>, <<"b", 2>>}
AddInputs == OwnAdds \cup {<<"a", 2>>}

NoErrors == [l \in {} |-> Nil]
AddOk == [msg |-> "", q |-> ""]
NoAdd == [label |-> "", service |-> NoService, outcome |-> AddOk]
\* panic(fmt.Sprintf("add: label %q already in use", label))
AddPanic(label) == [msg |-> "add: label %q already in use", q |-> label]

\* the locals of stateChanged, what it read, the composite state it met when it
\* called the Monitor, and how it ended
NoScan == [pc |-> "idle", src |-> "none", n |-> 0, todo |-> {}, found |-> NoErrors,
           errs |-> NoErrors, allStopped |-> TRUE, anyStopped |-> FALSE,
           old |-> Initializing, oldErr |-> Nil, outcome |-> "none"]

\* Collection.Stop() has not been called
NoStop == [pc |-> "none", members |-> {}, todo |-> {}, pending |-> 0]
\* Up() has not been called
NoUp == [none |-> TRUE]
\* no callback waits in a transition call it made on the Monitor
NoReentry == {}

\* NotReady is the state of a zero Monitor and of a zero Collection
NotReady == Initializing
NoFault == ""
\* a Collection of collection.go nothing has been added to: c.updates is nil and
\* no goroutine runs
NoChan == [updates |-> "nil", sends |-> 0, loop |-> "none", we |-> NotReady,
           last |-> "none", stop |-> "none", todo |-> {}, stops |-> 0,
           added |-> NoAdd, again |-> FALSE, fault |-> NoFault]

\* the labels of c.services
Bound(svcs) == {l \in Labels : svcs[l] # NoService}

\* an empty check that is never true
isEmpty_never(svcs) == FALSE

\* len(c.services) == 0
isEmpty(svcs) == Bound(svcs) = {}

\* RegisterCallback(c.id, f): the entry under the id is set, or replaced
RegisterCallbackById(cbs, id) == cbs \cup {id}

\* Add that registers with the service whether the Collection runs or not
Add_hooksAlways(svcs, run, mem, label, s) ==
    IF svcs[label] # NoService
    THEN [services |-> svcs, member |-> mem, outcome |-> AddPanic(label)]
    ELSE [services |-> [svcs EXCEPT ![label] = s],
          member |-> [mem EXCEPT ![s].callbacks = RegisterCallbackById(@, CollectionId)],
          outcome |-> AddOk]

\* Add that stores the service before it looks the label up
Add_overwrites(svcs, run, mem, label, s) ==
    IF svcs[label] # NoService
    THEN [services |-> [svcs EXCEPT ![label] = s], member |-> mem, outcome |-> AddPanic(label)]
    ELSE [services |-> [svcs EXCEPT ![label] = s],
          member |-> IF run
                     THEN [mem EXCEPT ![s].callbacks = RegisterCallbackById(@, CollectionId)]
                     ELSE mem,
          outcome |-> AddOk]

\* Collection.Add between c.Lock() and the deferred c.Unlock().  With the map
\* still nil no label is bound, and the lookup of the else branch finds nothing.
Add(svcs, run, mem, label, s) ==
    IF svcs[label] # NoService
    THEN [services |-> svcs, member |-> mem, outcome |-> AddPanic(label)]
    ELSE [services |-> [svcs EXCEPT ![label] = s],
          member |-> IF run
                     THEN [mem EXCEPT ![s].callbacks = RegisterCallbackById(@, CollectionId)]
                     ELSE mem,
          outcome |-> AddOk]

\* Collection.Run between c.Lock() and the deferred c.Unlock()
Run(svcs, mem) ==
    [i \in Members |->
        IF \E l \in Bound(svcs) : svcs[l] = i
        THEN [mem[i] EXCEPT !.callbacks = RegisterCallbackById(@, CollectionId)]
        ELSE mem[i]]

\* Up that reports every service that is past its initialization
Up_notInitializing(svcs, mem) == [l \in Bound(svcs) |-> mem[svcs[l]].state # Initializing]

\* Collection.Up
Up(svcs, mem) == [l \in Bound(svcs) |-> mem[svcs[l]].state = Ready]

\* an overall state that takes a service that is not ready for a ready one
getOverallState_skipNotReady(svcs, mem) ==
    IF \E l \in Bound(svcs) : mem[svcs[l]].state = Stopped THEN Stopped ELSE Ready

\* collection.go getOverallState: Stopped at the first stopped service it meets,
\* else NotReady if it met one that is not ready, else Ready
getOverallState(svcs, mem) ==
    IF \E l \in Bound(svcs) : mem[svcs[l]].state = Stopped
    THEN Stopped
    ELSE IF \E l \in Bound(svcs) : mem[svcs[l]].state = NotReady
    THEN NotReady
    ELSE Ready

\* Subscribe(id, channel) and Unsubscribe(id) on a service
Subscribe(m, id) == [m EXCEPT !.callbacks = @ \cup {id}]
Unsubscribe(m, id) == [m EXCEPT !.callbacks = @ \ {id}]

\* SetState / Stop on a service: setState of the subscription Monitor, that
\* drops its subscriptions when it stops
setStateOfService(m, in) ==
    LET r == setState("subscription", m, in)
    IN  [r EXCEPT !.m.callbacks = IF r.outcome = "accepted" /\ in.newState = Stopped
                                  THEN {} ELSE m.callbacks]

\* panic("add: label " + label + " already in use")
AddPanicChan(label) == [msg |-> "add: label " \o label \o " already in use", q |-> label]

\* the tokens rand.Uint32() can give, and the functions there are to register
Tokens == 0..MaxToken
Funcs == 1..NumFuncs
NoToken == MaxToken + 1
NoRegistry ==
    [callbacks |-> [t \in Tokens |-> NoCb], tokenOf |-> [f \in Funcs |-> NoToken],
     last |-> [op |-> "", token |-> NoToken, before |-> [t \in Tokens |-> NoCb]]]

\* the ids subscriptions are made under, and the channels there are
SubIds == {"x", "y"}
Channels == 1..NumChannels

\* a zero Monitor of the SetState variant, nothing called on it
NoSubscriber ==
    [m |-> [state |-> NotReady, err |-> Nil, errCount |-> 0,
            callbacks |-> [id \in SubIds |-> NoCb]],
     latest |-> [id \in SubIds |-> NoCb], replaced |-> [id \in SubIds |-> {}],
     outcome |-> "", sent |-> {}]

\* a Subscribe that leaves an id that is taken with the channel it has
SubscribeChannel_keepsFirst(subs, id, channel) ==
    IF subs[id] # NoCb THEN subs ELSE [subs EXCEPT ![id] = channel]

\* Monitor.Subscribe: m.subscriptions[id] = channel
SubscribeChannel(subs, id, channel) == [subs EXCEPT ![id] = channel]

\* the switch where a ready service leaves allStopped as it is
visit_readyKeepsAllStopped(scan, label, m) ==
    LET seen == [scan EXCEPT !.todo = @ \ {label},
                             !.found = [l \in DOMAIN @ \cup {label} |->
                                          IF l = label THEN m.state ELSE @[l]]]
    IN  CASE m.state = Initializing -> [seen EXCEPT !.pc = "idle", !.outcome = "initializing"]
          [] m.state = Ready -> seen
          [] m.state = Error ->
                [seen EXCEPT !.errs = [l \in DOMAIN @ \cup {label} |->
                                         IF l = label THEN m.err ELSE @[l]],
                             !.allStopped = FALSE]
          [] m.state = Stopped -> [seen EXCEPT !.anyStopped = TRUE]

\* One turn of the loop of stateChanged over c.services: the switch on
\* s.GetState(), with s.Err() read for an erroring service.
visit(scan, label, m) ==
    LET seen == [scan EXCEPT !.todo = @ \ {label},
                             !.found = [l \in DOMAIN @ \cup {label} |->
                                          IF l = label THEN m.state ELSE @[l]]]
    IN  CASE m.state = Initializing -> [seen EXCEPT !.pc = "idle", !.outcome = "initializing"]
          [] m.state = Ready -> [seen EXCEPT !.allStopped = FALSE]
          [] m.state = Error ->
                [seen EXCEPT !.errs = [l \in DOMAIN @ \cup {label} |->
                                         IF l = label THEN m.err ELSE @[l]],
                             !.allStopped = FALSE]
          [] m.state = Stopped -> [seen EXCEPT !.anyStopped = TRUE]

\* The end of stateChanged: which transition of c.Monitor it calls
decide(scan) ==
    IF DOMAIN scan.errs # {} THEN SetError(CollectionError(scan.errs))
    ELSE IF scan.allStopped THEN Stop
    ELSE IF scan.anyStopped THEN SetError(ErrStoppedServices)
    ELSE SetReady

-----------------------------------------------------------------------------
(* The notification wave of an accepted transition *)

\* One goroutine per entry of the registry as it is inside the critical section.
Notify(v, cbs, ev, seq) ==
    {[seq |-> seq, obs |-> cbs[t],
      ev |-> IF v = "subscription"
             THEN [ID |-> t, State |-> ev.State, Error |-> ev.Error]
             ELSE ev] : t \in {x \in DOMAIN cbs : cbs[x] # NoCb}}

\* the two defers in the other order: the lock is held until wg.Wait() returns
WaitBeforeUnlock == FALSE

\* defer wg.Wait() is registered before defer m.Unlock(), so the unlock runs first.
UnlockBeforeWait == TRUE

\* a return that does not wait for the wave
WaitDone_skipped(k) == TRUE

\* wg.Wait(): every goroutine of the caller's own wave has called wg.Done().
WaitDone(k) == \A d \in inflight : d.seq # k

Registered(cbs) == {cbs[t] : t \in {x \in TokenSpace : cbs[x] # NoCb}}

Mon == [state |-> state, err |-> err, errCount |-> errCount, callbacks |-> callbacks]


-----------------------------------------------------------------------------
(* Actions *)

InitMonitor ==
    /\ state = Initializing
    /\ err = Nil
    /\ errCount = 0
    /\ callbacks = [t \in TokenSpace |-> NoCb]
    /\ mu = 0
    /\ calls = {}
    /\ inflight = {}
    /\ received = [o \in Observers |-> {}]
    /\ handled = [o \in Observers |-> 0]
    /\ history = <<>>
    /\ nObs = 0
    /\ regAt = [o \in Observers |-> NotYet]
    /\ deregAt = [o \in Observers |-> NotYet]

\* The zero Collection
ZeroCollection ==
    /\ services = [l \in Labels |-> NoService]
    /\ running = FALSE
    /\ notes = 0
    /\ sc = NoScan
    /\ runs = [made |-> 0, pending |-> 0]
    /\ adds = [dups |-> 0, last |-> NoAdd]
    /\ memberCalls = 0
    /\ crashed = FALSE
    /\ stopc = NoStop
    /\ ups = NoUp
    /\ reent = NoReentry
    /\ ch = NoChan
    /\ sb = NoSubscriber
    /\ rg = NoRegistry

ZeroMonitor == [state |-> Initializing, err |-> Nil, errCount |-> 0, callbacks |-> {}]

\* The zero Collection, and zero Monitors that can be added to it
InitCollection == ZeroCollection /\ member = [i \in Members |-> ZeroMonitor]

\* A service handed to Add is a Monitor that is new, or that its owner has
\* already set ready, set erroring with the service's error, or stopped.
Services(v, i) ==
    {setState(v, ZeroMonitor, in).m : in \in {Stop, SetReady, SetError(ErrOf(i))}}
        \cup {ZeroMonitor}

InitCol ==
    /\ variant \in {"errcount", "identity"}
    /\ InitMonitor
    /\ ZeroCollection
    /\ member \in [Members -> UNION {Services(variant, i) : i \in Members}]
    /\ \A i \in Members : member[i] \in Services(variant, i)

\* The observed Collection embeds the Monitor of monitor.go and is handed
\* services that are new or running
InitColObs ==
    /\ InitCol
    /\ variant = "identity"
    /\ \A i \in Members : member[i].state \in {Initializing, Ready}

Init == variant \in {"errcount", "identity"} /\ InitMonitor /\ InitCollection
InitErrCount == variant = "errcount" /\ InitMonitor /\ InitCollection
InitSub == variant = "subscription" /\ InitMonitor /\ InitCollection

\* A caller runs SetReady / SetError / Stop / SetState up to the deferred Unlock;
\* with no goroutine started, wg.Wait() does not block and the call is over.
Transition(in) ==
    /\ Cardinality(calls) < NumCallers
    /\ Len(history) < MaxCalls
    /\ in \in AllInputs(variant)
    /\ in.newState \in names => mu = 0
    /\ LET r == setState(variant, Mon, in)
           seq == Len(history) + 1
           ok == r.outcome = "accepted"
           wave == IF ok THEN Notify(variant, callbacks, r.ev, seq) ELSE {}
       IN  /\ state' = r.m.state
           /\ err' = r.m.err
           /\ errCount' = r.m.errCount
           /\ callbacks' = r.m.callbacks
           /\ inflight' = inflight \cup wave
           /\ mu' = IF wave # {} /\ ~UnlockBeforeWait THEN seq ELSE mu
           /\ calls' = IF wave # {} THEN calls \cup {seq} ELSE calls
           /\ history' = Append(history,
                          [in |-> in, outcome |-> r.outcome, before |-> Mon,
                           after |-> [state |-> state', err |-> err',
                                      errCount |-> errCount', callbacks |-> callbacks']])
           /\ deregAt' = [o \in Observers |->
                            IF o \in Registered(callbacks) \ Registered(r.m.callbacks)
                            THEN seq ELSE deregAt[o]]
    /\ UNCHANGED <<variant, received, handled, nObs, regAt>>

Call(in) == Transition(in) /\ UNCHANGED colVars

\* A notification goroutine runs its callback (or completes its channel send) and
\* calls wg.Done().
Deliver(d) ==
    /\ d \in inflight
    /\ inflight' = inflight \ {d}
    /\ received' = [received EXCEPT ![d.obs] = @ \cup {[seq |-> d.seq, ev |-> d.ev]}]
    /\ handled' = [handled EXCEPT ![d.obs] = @ + 1]
    /\ UNCHANGED <<variant, state, err, errCount, callbacks, mu, calls, history,
                   nObs, regAt, deregAt>>
    /\ UNCHANGED colVars

\* wg.Wait() returns and with it the transition call.
Return(k) ==
    /\ k \in calls
    /\ WaitDone(k)
    /\ calls' = calls \ {k}
    /\ mu' = IF mu = k THEN 0 ELSE mu
    /\ UNCHANGED <<variant, state, err, errCount, callbacks, inflight, received,
                   handled, history, nObs, regAt, deregAt>>
    /\ UNCHANGED colVars

\* RegisterCallback draws random tokens until one is unused; Subscribe takes the
\* id it is given and replaces what was there.
TokenChoices_any(v, cbs) == DOMAIN cbs

TokenChoices(v, cbs) ==
    IF v = "subscription" THEN DOMAIN cbs ELSE {t \in DOMAIN cbs : cbs[t] = NoCb}

RegisterCallback(t) ==
    /\ mu = 0
    /\ nObs < MaxObs
    /\ t \in TokenChoices(variant, callbacks)
    /\ nObs' = nObs + 1
    /\ callbacks' = [callbacks EXCEPT ![t] = nObs + 1]
    /\ regAt' = [regAt EXCEPT ![nObs + 1] = Len(history)]
    /\ deregAt' = [o \in Observers |->
                     IF callbacks[t] # NoCb /\ o = callbacks[t] THEN Len(history)
                     ELSE deregAt[o]]
    /\ UNCHANGED <<variant, state, err, errCount, mu, calls, inflight, received,
                   handled, history>>
    /\ UNCHANGED colVars

\* a delete that leaves the entry in the map
delete_keeps(cbs, t) == cbs

delete(cbs, t) == [cbs EXCEPT ![t] = NoCb]

DeregisterCallback(t) ==
    /\ mu = 0
    /\ callbacks' = delete(callbacks, t)
    /\ deregAt' = [o \in Observers |->
                     IF callbacks[t] # NoCb /\ o = callbacks[t] THEN Len(history)
                     ELSE deregAt[o]]
    /\ UNCHANGED <<variant, state, err, errCount, mu, calls, inflight, received,
                   handled, history, nObs, regAt>>
    /\ UNCHANGED colVars

\* The callbacks that wait inside a transition call they made
Blocked == {b.d : b \in reent}

\* the callback handling d calls SetReady / SetError / Stop on the Monitor and
\* waits in their wg.Wait() if the call starts a wave
CallbackCall(d, in) ==
    /\ d \in inflight \ Blocked
    /\ Transition(in)
    /\ reent' = IF Len(history') \in calls'
                THEN reent \cup {[d |-> d, k |-> Len(history')]}
                ELSE reent
    /\ UNCHANGED <<services, running, member, notes, sc, runs, adds, memberCalls, crashed,
                   stopc, ups, ch, sb, rg>>

\* wg.Wait() of a call made inside a callback returns: the callback goes on
CallbackReturn(k) ==
    /\ k \in calls
    /\ WaitDone(k)
    /\ \E b \in reent : b.k = k
    /\ calls' = calls \ {k}
    /\ mu' = IF mu = k THEN 0 ELSE mu
    /\ reent' = {b \in reent : b.k # k}
    /\ UNCHANGED <<variant, state, err, errCount, callbacks, inflight, received,
                   handled, history, nObs, regAt, deregAt>>
    /\ UNCHANGED <<services, running, member, notes, sc, runs, adds, memberCalls, crashed,
                   stopc, ups, ch, sb, rg>>

\* A Monitor whose observers call it back from inside their callbacks: its owner
\* makes one transition call at a time, the concurrent calls are the observers'
NextReentrant ==
    \/ \E in \in CallInputs(variant) : calls = {} /\ Call(in)
    \/ \E d \in inflight \ Blocked : Deliver(d)
    \/ \E k \in calls : (\A b \in reent : b.k # k) /\ Return(k)
    \/ \E t \in TokenSpace : RegisterCallback(t)
    \/ \E t \in TokenSpace : DeregisterCallback(t)
    \/ \E d \in inflight : \E in \in CallInputs(variant) : CallbackCall(d, in)
    \/ \E k \in calls : CallbackReturn(k)

Next ==
    \/ \E in \in CallInputs(variant) : Call(in)
    \/ \E d \in inflight : Deliver(d)
    \/ \E k \in calls : Return(k)
    \/ \E t \in TokenSpace : RegisterCallback(t)
    \/ \E t \in TokenSpace : DeregisterCallback(t)

-----------------------------------------------------------------------------
(* The actions of a Collection, its members and its observers *)

\* Collection.Stop registers defer wg.Wait() before c.Lock() and defer c.Unlock(),
\* so the unlock runs first.
UnlockBeforeWaitInStop == TRUE

\* c.Lock() can be taken: no stateChanged is between its Lock and its Unlock,
\* and no Stop
LockFree ==
    /\ sc.pc \notin {"scan", "wait"}
    /\ UnlockBeforeWaitInStop \/ stopc.pc # "wait"

\* Collection.Add(label, s)
AddCall(label, s) ==
    /\ ~crashed
    /\ LockFree
    /\ <<label, s>> \in AddInputs
    /\ LET r == Add(services, running, member, label, s)
       IN  /\ r.outcome # AddOk => adds.dups < MaxDupAdds
           /\ services' = r.services
           /\ member' = r.member
           /\ adds' = IF r.outcome # AddOk
                      THEN [dups |-> adds.dups + 1,
                            last |-> [label |-> label, service |-> s, outcome |-> r.outcome]]
                      ELSE adds
    /\ UNCHANGED <<running, notes, sc, runs, memberCalls, crashed, stopc>>
    /\ UNCHANGED restVars
    /\ UNCHANGED monVars

\* Collection.Run() up to its Unlock; the deferred stateChanged is still to come
RunCall ==
    /\ ~crashed
    /\ LockFree
    /\ runs.made < MaxRuns
    /\ member' = Run(services, member)
    /\ runs' = [made |-> runs.made + 1, pending |-> runs.pending + 1]
    /\ UNCHANGED <<services, running, notes, sc, adds, memberCalls, crashed, stopc>>
    /\ UNCHANGED restVars
    /\ UNCHANGED monVars

MemberInputs(i) == {SetReady, Stop, SetError(ErrOf(i))}

\* SetReady / SetError / Stop on a service, added or not; an accepted transition
\* starts the Collection's callback if it is registered.
MemberCall(i, in) ==
    /\ ~crashed
    /\ memberCalls < MaxMemberCalls
    /\ in \in MemberInputs(i)
    /\ LET r == setState(variant, member[i], in)
       IN  /\ member' = [member EXCEPT ![i] = r.m]
           /\ notes' = IF r.outcome = "accepted" /\ CollectionId \in member[i].callbacks
                       THEN notes + 1 ELSE notes
    /\ memberCalls' = memberCalls + 1
    /\ UNCHANGED <<services, running, sc, runs, adds, crashed, stopc>>
    /\ UNCHANGED restVars
    /\ UNCHANGED monVars

\* after the loop: the call of c.Monitor.SetError / Stop / SetReady up to the
\* Monitor's Unlock.  A panic leaves through the deferred c.Unlock(); in a
\* callback goroutine nobody recovers it.
stateChanged_commit(scan) ==
    LET in == decide(scan)
        r == setState(variant, Mon, in)
        ok == r.outcome = "accepted"
        wave == IF ok THEN Notify(variant, callbacks, r.ev, scan.n + 1) ELSE {}
    IN  /\ state' = r.m.state
        /\ err' = r.m.err
        /\ errCount' = r.m.errCount
        /\ callbacks' = r.m.callbacks
        /\ inflight' = inflight \cup wave
        /\ sc' = [scan EXCEPT !.pc = IF wave # {} THEN "wait" ELSE "idle",
                              !.n = IF wave # {} THEN @ + 1 ELSE @,
                              !.old = state,
                              !.oldErr = err,
                              !.outcome = r.outcome]
        /\ crashed' = (r.outcome \notin {"accepted", "noop"} /\ scan.src # "Run")
        /\ UNCHANGED <<variant, mu, calls, received, handled, history, nObs, regAt, deregAt>>

\* the loop goes on, has returned, or is over and the transition is made
stateChanged_loop(scan) ==
    IF scan.pc = "scan" /\ scan.todo = {}
    THEN stateChanged_commit(scan)
    ELSE sc' = scan /\ UNCHANGED monVars /\ UNCHANGED crashed

\* stateChanged is called by Run or by a service's callback goroutine: it takes
\* the lock, returns if there is no service, and reads the first service.
stateChanged(src, label) ==
    /\ ~crashed
    /\ LockFree
    /\ mu = 0
    /\ \/ src = "Run" /\ runs.pending > 0
          /\ runs' = [runs EXCEPT !.pending = @ - 1] /\ notes' = notes /\ stopc' = stopc
       \/ src = "callback" /\ notes > 0
          /\ notes' = notes - 1 /\ runs' = runs /\ stopc' = stopc
       \/ src = "Stop" /\ stopc.pending > 0
          /\ stopc' = [stopc EXCEPT !.pending = @ - 1] /\ notes' = notes /\ runs' = runs
    /\ LET scan == [NoScan EXCEPT !.pc = "scan", !.src = src, !.n = sc.n,
                                  !.todo = Bound(services)]
       IN  IF isEmpty(services)
           THEN /\ sc' = [NoScan EXCEPT !.src = src, !.n = sc.n, !.outcome = "empty"]
                /\ UNCHANGED monVars /\ UNCHANGED crashed
           ELSE IF scan.todo = {}
           THEN stateChanged_loop(scan)
           ELSE /\ label \in scan.todo
                /\ stateChanged_loop(visit(scan, label, member[services[label]]))
    /\ UNCHANGED <<services, running, member, adds, memberCalls>>
    /\ UNCHANGED restVars

\* the loop reaches its next service, in the order the map gives
stateChanged_visit(label) ==
    /\ ~crashed
    /\ sc.pc = "scan"
    /\ mu = 0
    /\ label \in sc.todo
    /\ stateChanged_loop(visit(sc, label, member[services[label]]))
    /\ UNCHANGED <<services, running, member, notes, runs, adds, memberCalls, stopc>>
    /\ UNCHANGED restVars

\* wg.Wait() of the Monitor's transition returns, then the deferred c.Unlock()
stateChanged_return ==
    /\ ~crashed
    /\ sc.pc = "wait"
    /\ WaitDone(sc.n)
    /\ sc' = [sc EXCEPT !.pc = "idle"]
    /\ UNCHANGED <<services, running, member, notes, runs, adds, memberCalls, crashed,
                   stopc>>
    /\ UNCHANGED restVars
    /\ UNCHANGED monVars

\* Collection.Stop() between c.Lock() and the deferred c.Unlock(): one goroutine
\* is started per service; wg.Wait() comes after the Unlock.
StopCall ==
    /\ ~crashed
    /\ LockFree
    /\ stopc.pc = "none"
    /\ LET ss == {services[l] : l \in Bound(services)}
       IN  stopc' = [pc |-> "wait", members |-> ss, todo |-> ss, pending |-> 0]
    /\ UNCHANGED <<services, running, member, notes, sc, runs, adds, memberCalls, crashed>>
    /\ UNCHANGED restVars
    /\ UNCHANGED monVars

\* a goroutine of Stop calls s.Stop(); if the service notifies the Collection
\* the goroutine waits for that callback before it calls wg.Done()
StopService(i) ==
    /\ ~crashed
    /\ i \in stopc.todo
    /\ LET r == setState(variant, member[i], Stop)
       IN  /\ member' = [member EXCEPT ![i] = r.m]
           /\ stopc' = [stopc EXCEPT !.todo = @ \ {i},
                                     !.pending = IF r.outcome = "accepted" /\ CollectionId \in member[i].callbacks
                                                 THEN @ + 1 ELSE @]
    /\ UNCHANGED <<services, running, notes, sc, runs, adds, memberCalls, crashed>>
    /\ UNCHANGED restVars
    /\ UNCHANGED monVars

\* wg.Wait() of Collection.Stop() returns: every goroutine is done
StopReturn ==
    /\ ~crashed
    /\ stopc.pc = "wait"
    /\ stopc.todo = {} /\ stopc.pending = 0
    /\ ~(sc.src = "Stop" /\ sc.pc \in {"scan", "wait"})
    /\ stopc' = [stopc EXCEPT !.pc = "returned"]
    /\ UNCHANGED <<services, running, member, notes, sc, runs, adds, memberCalls, crashed>>
    /\ UNCHANGED restVars
    /\ UNCHANGED monVars

\* Collection.Up(), from c.Lock() to the deferred c.Unlock()
UpCall ==
    /\ ~crashed
    /\ LockFree
    /\ ups' = Up(services, member)
    /\ ups' # ups
    /\ UNCHANGED <<services, running, member, notes, sc, runs, adds, memberCalls, crashed,
                   stopc, reent, ch, sb, rg>>
    /\ UNCHANGED monVars

\* Add is called with each label for a service of its own, and with the second
\* label for the first service as well
ChanAddInputs == OwnAdds \cup {<<"b", 1>>}

\* collection.go Add(label, s): the first Add makes the map and the channel and
\* starts the update loop; a used label panics; the service is subscribed with
\* c.id and a goroutine is started that sends the trigger.
ChanAdd(label, s) ==
    /\ ch.fault = NoFault
    /\ ch.stop = "none"
    /\ LET again == \E l \in Labels \ {label} : services[l] = s
           first == ch.updates = "nil"
       IN  IF ~first /\ services[label] # NoService
           THEN /\ adds.dups < MaxDupAdds
                /\ adds' = [adds EXCEPT !.dups = @ + 1]
                /\ ch' = [ch EXCEPT !.added = [label |-> label, service |-> s,
                                               outcome |-> AddPanicChan(label)],
                                    !.again = again]
                /\ UNCHANGED <<services, member>>
           ELSE /\ services' = [services EXCEPT ![label] = s]
                /\ member' = [member EXCEPT ![s] = Subscribe(@, CollectionId)]
                /\ ch' = [ch EXCEPT !.updates = IF first THEN "open" ELSE @,
                                    !.loop = IF first THEN "recv" ELSE @,
                                    !.sends = @ + 1,
                                    !.added = [label |-> label, service |-> s,
                                               outcome |-> AddOk],
                                    !.again = again]
                /\ adds' = adds
    /\ UNCHANGED <<running, notes, sc, runs, memberCalls, crashed, stopc, ups, reent, sb, rg>>
    /\ UNCHANGED monVars

ChanMemberInputs == {SetState(s, e) : s \in {NotReady, Ready, Stopped},
                                     e \in {Nil, errorString("e1")}} \cup {Stop}

\* the owner of a service calls SetState or Stop on it: an accepted transition
\* starts a goroutine that sends on the channel of each subscription
ChanMemberCall(i, in) ==
    /\ ch.fault = NoFault
    /\ memberCalls < MaxMemberCalls
    /\ in \in ChanMemberInputs
    /\ LET r == setStateOfService(member[i], in)
       IN  /\ r.outcome \in {"accepted", "noop"}
           /\ member' = [member EXCEPT ![i] = r.m]
           /\ ch' = IF r.outcome = "accepted" /\ CollectionId \in member[i].callbacks
                    THEN [ch EXCEPT !.sends = @ + 1] ELSE ch
    /\ memberCalls' = memberCalls + 1
    /\ UNCHANGED <<services, running, notes, sc, runs, adds, crashed, stopc, ups, reent, sb, rg>>
    /\ UNCHANGED monVars

\* for range c.updates: the loop receives what one of the senders sends
ChanReceive ==
    /\ ch.fault = NoFault
    /\ ch.updates = "open"
    /\ ch.loop = "recv"
    /\ ch.sends > 0
    /\ ch' = [ch EXCEPT !.sends = @ - 1, !.loop = "get"]
    /\ UNCHANGED <<services, running, member, notes, sc, runs, adds, memberCalls,
                   crashed, stopc, ups, reent, sb, rg>>
    /\ UNCHANGED monVars

\* a goroutine is in c.updates <- Notification{} when the channel is closed
ChanSendOnClosed ==
    /\ ch.fault = NoFault
    /\ ch.updates = "closed"
    /\ ch.sends > 0
    /\ ch' = [ch EXCEPT !.fault = "panic: send on closed channel"]
    /\ UNCHANGED <<services, running, member, notes, sc, runs, adds, memberCalls,
                   crashed, stopc, ups, reent, sb, rg>>
    /\ UNCHANGED monVars

\* the loop ends when it finds the channel closed
ChanLoopExit ==
    /\ ch.fault = NoFault
    /\ ch.updates = "closed"
    /\ ch.loop = "recv"
    /\ ch' = [ch EXCEPT !.loop = "exited"]
    /\ UNCHANGED <<services, running, member, notes, sc, runs, adds, memberCalls,
                   crashed, stopc, ups, reent, sb, rg>>
    /\ UNCHANGED monVars

\* the loop calls c.getOverallState()
ChanGetOverallState ==
    /\ ch.fault = NoFault
    /\ ch.loop = "get"
    /\ ch' = [ch EXCEPT !.we = getOverallState(services, member), !.loop = "set"]
    /\ UNCHANGED <<services, running, member, notes, sc, runs, adds, memberCalls,
                   crashed, stopc, ups, reent, sb, rg>>
    /\ UNCHANGED monVars

\* the loop calls c.Monitor.SetState(<overall state>, nil); a panic in the loop's
\* goroutine ends the program
ChanSetState ==
    /\ ch.fault = NoFault
    /\ ch.loop = "set"
    /\ LET r == setState("subscription", Mon, SetState(ch.we, Nil))
       IN  /\ state' = r.m.state
           /\ err' = r.m.err
           /\ ch' = [ch EXCEPT !.loop = "recv", !.last = r.outcome,
                               !.fault = IF r.outcome \in {"accepted", "noop"}
                                         THEN NoFault ELSE r.outcome]
    /\ UNCHANGED <<variant, errCount, callbacks, mu, calls, inflight, received,
                   handled, history, nObs, regAt, deregAt>>
    /\ UNCHANGED <<services, running, member, notes, sc, runs, adds, memberCalls,
                   crashed, stopc, ups, reent, sb, rg>>

\* collection.go Stop(), its critical section: every service is unsubscribed
\* and a goroutine is started that stops it; c.services = nil
ChanStop ==
    /\ ch.fault = NoFault
    /\ ch.stop \in {"none", "returned"}
    /\ ch.stops < MaxStops
    /\ LET ss == {services[l] : l \in Bound(services)}
       IN  /\ member' = [i \in Members |->
                           IF i \in ss THEN Unsubscribe(member[i], CollectionId)
                           ELSE member[i]]
           /\ ch' = [ch EXCEPT !.stop = "wait", !.todo = ss, !.stops = @ + 1]
    /\ services' = [l \in Labels |-> NoService]
    /\ UNCHANGED <<running, notes, sc, runs, adds, memberCalls, crashed, stopc, ups, reent, sb, rg>>
    /\ UNCHANGED monVars

\* go func(s Service) { s.Stop(); wg.Done() }
ChanStopService(i) ==
    /\ ch.fault = NoFault
    /\ i \in ch.todo
    /\ LET r == setStateOfService(member[i], Stop)
       IN  /\ member' = [member EXCEPT ![i] = r.m]
           /\ ch' = [ch EXCEPT !.todo = @ \ {i},
                               !.sends = IF r.outcome = "accepted"
                                            /\ CollectionId \in member[i].callbacks
                                         THEN @ + 1 ELSE @]
    /\ UNCHANGED <<services, running, notes, sc, runs, adds, memberCalls, crashed,
                   stopc, ups, reent, sb, rg>>
    /\ UNCHANGED monVars

\* wg.Wait() is over; if u != nil { close(u) }
ChanStopClose ==
    /\ ch.fault = NoFault
    /\ ch.stop = "wait"
    /\ ch.todo = {}
    /\ ch' = [ch EXCEPT !.stop = "close",
                        !.updates = IF @ = "nil" THEN "nil" ELSE "closed",
                        !.fault = IF ch.updates = "closed"
                                  THEN "panic: close of closed channel" ELSE NoFault]
    /\ UNCHANGED <<services, running, member, notes, sc, runs, adds, memberCalls,
                   crashed, stopc, ups, reent, sb, rg>>
    /\ UNCHANGED monVars

\* c.Monitor.Stop(), and Stop() returns
ChanStopMonitor ==
    /\ ch.fault = NoFault
    /\ ch.stop = "close"
    /\ LET r == setState("subscription", Mon, Stop)
       IN  /\ state' = r.m.state
           /\ err' = r.m.err
    /\ ch' = [ch EXCEPT !.stop = "returned"]
    /\ UNCHANGED <<variant, errCount, callbacks, mu, calls, inflight, received,
                   handled, history, nObs, regAt, deregAt>>
    /\ UNCHANGED <<services, running, member, notes, sc, runs, adds, memberCalls,
                   crashed, stopc, ups, reent, sb, rg>>

\* Subscribe(id, channel) on the Monitor; latest and replaced remember what the
\* caller passed under each id
SubscribeCall(id, channel) ==
    /\ sb' = [sb EXCEPT !.m.callbacks = SubscribeChannel(@, id, channel),
                        !.replaced[id] = IF sb.latest[id] \in {NoCb, channel}
                                         THEN @ \ {channel}
                                         ELSE (@ \ {channel}) \cup {sb.latest[id]},
                        !.latest[id] = channel,
                        !.outcome = "", !.sent = {}]
    /\ UNCHANGED <<services, running, member, notes, sc, runs, adds, memberCalls,
                   crashed, stopc, ups, reent, ch, rg>>
    /\ UNCHANGED monVars

\* SetState / Stop on the Monitor up to the deferred Unlock: sent are the
\* goroutines started, one per subscription, each with the channel it sends on;
\* a Monitor that stops is left without subscriptions
SubscriberSetState(in) ==
    /\ LET r == setState("subscription", sb.m, in)
           wave == IF r.outcome = "accepted"
                   THEN Notify("subscription", sb.m.callbacks, r.ev, 0)
                   ELSE {}
           nosubs == r.outcome = "accepted" /\ in.newState = Stopped
       IN  sb' = [sb EXCEPT !.m = [r.m EXCEPT !.callbacks =
                                       IF nosubs THEN [id \in SubIds |-> NoCb]
                                       ELSE sb.m.callbacks],
                           !.outcome = r.outcome,
                           !.sent = {[id |-> d.ev.ID, channel |-> d.obs] : d \in wave}]
    /\ UNCHANGED <<services, running, member, notes, sc, runs, adds, memberCalls,
                   crashed, stopc, ups, reent, ch, rg>>
    /\ UNCHANGED monVars

\* RegisterCallback(f): the loop ends with a token that is not a key of the map,
\* f goes in under it and the caller keeps the token
RegistryRegister(f, t) ==
    /\ rg.tokenOf[f] = NoToken
    /\ t \in TokenChoices("identity", rg.callbacks)
    /\ rg' = [callbacks |-> [rg.callbacks EXCEPT ![t] = f],
              tokenOf |-> [rg.tokenOf EXCEPT ![f] = t],
              last |-> [op |-> "Register", token |-> t, before |-> rg.callbacks]]
    /\ UNCHANGED <<services, running, member, notes, sc, runs, adds, memberCalls,
                   crashed, stopc, ups, reent, ch, sb>>
    /\ UNCHANGED monVars

\* DeregisterCallback(t), with a token somebody holds or with any other
RegistryDeregister(t) ==
    /\ rg' = [callbacks |-> delete(rg.callbacks, t),
              tokenOf |-> [f \in Funcs |-> IF rg.tokenOf[f] = t THEN NoToken
                                           ELSE rg.tokenOf[f]],
              last |-> [op |-> "Deregister", token |-> t, before |-> rg.callbacks]]
    /\ UNCHANGED <<services, running, member, notes, sc, runs, adds, memberCalls,
                   crashed, stopc, ups, reent, ch, sb>>
    /\ UNCHANGED monVars

\* A Monitor and the callers that register and deregister callbacks on it
NextRegistry ==
    \/ \E f \in Funcs : \E t \in Tokens : RegistryRegister(f, t)
    \/ \E t \in Tokens : RegistryDeregister(t)

\* A Monitor of the SetState variant and its subscriptions
NextSubscribe ==
    \/ \E id \in SubIds : \E c \in Channels : SubscribeCall(id, c)
    \/ \E in \in CallInputs("subscription") : SubscriberSetState(in)

\* A Collection nobody observes, each label added once
NextCol ==
    \/ \E l \in Labels : \E i \in Members :
          <<l, i>> \in OwnAdds /\ services[l] = NoService /\ AddCall(l, i)
    \/ RunCall
    \/ \E i \in Members : \E in \in MemberInputs(i) : MemberCall(i, in)
    \/ \E src \in {"Run", "callback"} : \E l \in Labels : stateChanged(src, l)
    \/ \E l \in Labels : stateChanged_visit(l)

\* The same with observers on the Collection itself
NextColObs ==
    \/ \E l \in Labels : \E i \in Members :
          <<l, i>> \in OwnAdds /\ services[l] = NoService /\ AddCall(l, i)
    \/ RunCall
    \/ \E i \in Members : \E in \in MemberInputs(i) : MemberCall(i, in)
    \/ \E src \in {"Run", "callback"} : \E l \in Labels : stateChanged(src, l)
    \/ \E l \in Labels : stateChanged_visit(l)
    \/ stateChanged_return
    \/ \E d \in inflight : ~crashed /\ Deliver(d)
    \/ \E t \in TokenSpace : ~crashed /\ RegisterCallback(t)

\* Run() has been called and has returned
Running == runs.made > 0 /\ runs.pending = 0

\* A running Collection that is observed, or added to another Collection whose
\* stateChanged then is the observer and reads this one with GetState(); callers
\* change the state of its services, ask which are up and stop it
NextColLive ==
    \/ \E l \in Labels : \E i \in Members :
          /\ <<l, i>> \in OwnAdds /\ services[l] = NoService /\ runs.made = 0
          /\ l = "b" => services["a"] # NoService
          /\ AddCall(l, i)
    \/ \E t \in TokenSpace : runs.made = 0 /\ RegisterCallback(t)
    \/ Bound(services) = Labels /\ runs.made = 0 /\ RunCall
    \/ \E i \in Members : \E in \in MemberInputs(i) : Running /\ MemberCall(i, in)
    \/ \E src \in {"Run", "callback", "Stop"} : \E l \in Labels : stateChanged(src, l)
    \/ \E l \in Labels : stateChanged_visit(l)
    \/ stateChanged_return
    \/ \E d \in inflight : ~crashed /\ mu = 0 /\ Deliver(d)
    \/ Running /\ StopCall
    \/ \E i \in Members : StopService(i)
    \/ StopReturn
    \/ Running /\ UpCall

\* A Collection whose services do not change state, with any Add made again
NextColAdd ==
    \/ \E l \in Labels : \E i \in Members : AddCall(l, i)
    \/ RunCall
    \/ \E src \in {"Run", "callback"} : \E l \in Labels : stateChanged(src, l)
    \/ \E l \in Labels : stateChanged_visit(l)

\* A Collection that is stopped and asked which services are up; its services
\* are in any state when they are added and change state only by Stop()
NextColStop ==
    \/ \E l \in Labels : \E i \in Members :
          <<l, i>> \in OwnAdds /\ services[l] = NoService /\ AddCall(l, i)
    \/ RunCall
    \/ \E src \in {"Run", "callback", "Stop"} : \E l \in Labels : stateChanged(src, l)
    \/ \E l \in Labels : stateChanged_visit(l)
    \/ StopCall
    \/ \E i \in Members : StopService(i)
    \/ StopReturn
    \/ UpCall

\* The Monitor of monitor.go, SetError called with any error value
NextIdentity ==
    \/ \E in \in IdentityInputs : Call(in)
    \/ \E d \in inflight : Deliver(d)
    \/ \E k \in calls : Return(k)
    \/ \E t \in TokenSpace : RegisterCallback(t)
    \/ \E t \in TokenSpace : DeregisterCallback(t)

\* The Collection of collection.go over services that are subscription Monitors
NextChan ==
    \/ \E l \in Labels : \E i \in Members : <<l, i>> \in ChanAddInputs /\ ChanAdd(l, i)
    \/ \E i \in Members : \E in \in ChanMemberInputs : ChanMemberCall(i, in)
    \/ ChanReceive
    \/ ChanSendOnClosed
    \/ ChanLoopExit
    \/ ChanGetOverallState
    \/ ChanSetState
    \/ ChanStop
    \/ \E i \in Members : ChanStopService(i)
    \/ ChanStopClose
    \/ ChanStopMonitor

\* Both callback variants of the Monitor
Spec == Init /\ [][Next]_vars
\* The Monitor of monitor.go with observers that call it back; every step
\* that can be taken is taken in the end
InitReentrant == variant = "identity" /\ InitMonitor /\ InitCollection
SpecReentrant == InitReentrant /\ [][NextReentrant]_vars /\ WF_vars(NextReentrant)
\* A Collection of part_003 over Monitors of both callback variants
SpecCol == InitCol /\ [][NextCol]_vars
\* The same Collection with observers registered on it
SpecColObs == InitColObs /\ [][NextColObs]_vars
\* The Collection and its Add
SpecColAdd == InitCol /\ [][NextColAdd]_vars
\* The Collection with Stop() and Up()
SpecColStop == InitCol /\ [][NextColStop]_vars
\* The Collection is handed new services; every goroutine that can take a step
\* takes it in the end
InitColLive == variant = "identity" /\ InitMonitor /\ InitCollection
SpecColLive == InitColLive /\ [][NextColLive]_vars /\ WF_vars(NextColLive)
\* The Collection of collection.go and two services in any state
InitChan ==
    /\ variant = "subscription"
    /\ InitMonitor
    /\ ZeroCollection
    /\ member \in [Members -> {setStateOfService(ZeroMonitor, SetState(s, Nil)).m :
                                    s \in {NotReady, Ready, Stopped}}]
SpecChan == InitChan /\ [][NextChan]_vars
InitIdentity == variant = "identity" /\ InitMonitor /\ InitCollection
SpecIdentity == InitIdentity /\ [][NextIdentity]_vars
InitSubscribe == variant = "subscription" /\ InitMonitor /\ InitCollection
SpecSubscribe == InitSubscribe /\ [][NextSubscribe]_vars
InitRegistry == variant = "identity" /\ InitMonitor /\ InitCollection
SpecRegistry == InitRegistry /\ [][NextRegistry]_vars
\* The errCount variant alone
SpecErrCount == InitErrCount /\ [][Next]_vars
\* The errCount variant after a long run of SetError calls that nobody observed:
\* history starts here
InitSaturate ==
    /\ variant = "errcount"
    /\ state = Error
    /\ err = errorString("e1")
    /\ errCount \in {MaxInt - 1, MaxInt}
    /\ callbacks = [t \in TokenSpace |-> NoCb]
    /\ mu = 0
    /\ calls = {}
    /\ inflight = {}
    /\ received = [o \in Observers |-> {}]
    /\ handled = [o \in Observers |-> 0]
    /\ history = <<>>
    /\ nObs = 0
    /\ regAt = [o \in Observers |-> NotYet]
    /\ deregAt = [o \in Observers |-> NotYet]
    /\ InitCollection
SpecSaturate == InitSaturate /\ [][Next]_vars
\* The SetState / Subscribe variant
SpecSub == InitSub /\ [][Next]_vars

-----------------------------------------------------------------------------
(* What the properties below read off the run *)

Max(S) == CHOOSE x \in S : \A y \in S : y <= x

Calls == 1..Len(history)
Accepted == {k \in Calls : history[k].outcome = "accepted"}
StoppedPanic == "panic: cannot transition from stopped state"
UndefinedPanic == "panic: state is undefined"

\* The calls whose event has reached, or is on its way to, observer o
Got(o) == {r.seq : r \in received[o]}
OnTheWay(o) == {d.seq : d \in {x \in inflight : x.obs = o}}
EventsOf(k) == {d \in inflight : d.seq = k} \cup
               UNION {{r \in received[o] : r.seq = k} : o \in Observers}


-----------------------------------------------------------------------------
(* C1: once the Monitor's state is Stopped, no later step changes state,   *)
(* err or errCount, a rejected SetReady or SetError included.              *)
C1_StoppedIsFrozen ==
    [][state = Stopped => (state' = state /\ err' = err /\ errCount' = errCount)]_vars

(* C2: on a Stopped Monitor every SetReady and SetError call panics with   *)
(* "cannot transition from stopped state", every Stop call returns as a    *)
(* no-op, and none of these calls delivers an event.                       *)
C2_StoppedRejects ==
    \A k \in Calls :
        history[k].before.state = Stopped =>
            /\ history[k].in.op \in {"SetReady", "SetError"} =>
                   history[k].outcome = StoppedPanic
            /\ history[k].in.op = "Stop" => history[k].outcome = "noop"
            /\ EventsOf(k) = {}

C2_Witness ==
    \E k \in Calls : /\ history[k].before.state = Stopped
                     /\ history[k].in.op = "SetReady"
                     /\ history[k].outcome = StoppedPanic
                     /\ Registered(history[k].before.callbacks) # {}

(* C3: an observer that stays registered gets exactly one event for each   *)
(* transition accepted since it registered and none for a call repeating   *)
(* the current state; each event carries the state before, the state       *)
(* after, the error passed and the resulting error count; a repeating call *)
(* changes no field.                                                       *)
C3_OneEventPerTransition ==
    /\ \A o \in 1..nObs :
          deregAt[o] = NotYet =>
             /\ Got(o) \cup OnTheWay(o) = {k \in Accepted : k > regAt[o]}
             /\ Got(o) \cap OnTheWay(o) = {}
             /\ handled[o] = Cardinality(Got(o))
             /\ \A r \in received[o] :
                   /\ r.ev.OldState = history[r.seq].before.state
                   /\ r.ev.NewState = history[r.seq].after.state
                   /\ r.ev.NewState = history[r.seq].in.newState
                   /\ r.ev.Error = history[r.seq].in.newErr
                   /\ r.ev.ErrCount = history[r.seq].after.errCount
    /\ \A k \in Calls :
          (/\ history[k].in.op \in {"SetReady", "Stop"}
           /\ history[k].in.newState = history[k].before.state) =>
             /\ history[k].outcome = "noop"
             /\ history[k].after = history[k].before
             /\ EventsOf(k) = {}

C3_Witness ==
    \E o \in 1..nObs :
        /\ deregAt[o] = NotYet
        /\ handled[o] = 1
        /\ \E k \in Calls : /\ k > regAt[o]
                            /\ history[k].in.op = "SetReady"
                            /\ history[k].outcome = "noop"

(* C4: Err() is the error passed to the most recent accepted transition    *)
(* into Error, or nil if there has been none; SetReady and Stop leave it.  *)
LastErrorPassed ==
    LET into == {k \in Accepted : history[k].in.newState = Error}
    IN  IF into = {} THEN Nil ELSE history[Max(into)].in.newErr

C4_StickyErr == err = LastErrorPassed

C4_Witness == state = Ready /\ err \in Errs

(* C5: while the Monitor is not stopped, ErrCount() is the number of       *)
(* SetError calls since the last accepted non-error transition; each of    *)
(* them is accepted and its event carries the count it produced.           *)
SetErrorRun(n) ==
    LET resets == {k \in Accepted : k <= n /\ history[k].in.newState # Error}
        from == IF resets = {} THEN 0 ELSE Max(resets)
    IN  Cardinality({k \in (from + 1)..n : history[k].in.op = "SetError"})

C5_ErrCountCounts ==
    /\ state # Stopped => errCount = SetErrorRun(Len(history))
    /\ \A k \in Calls :
          (history[k].in.op = "SetError" /\ history[k].before.state # Stopped) =>
             /\ history[k].outcome = "accepted"
             /\ \A e \in EventsOf(k) : e.ev.ErrCount = SetErrorRun(k)

C5_Witness ==
    /\ errCount = 2
    /\ \E o \in 1..nObs : \E r \in received[o] : r.ev.ErrCount = 2

(* C6: ErrCount() is 0 whenever the state is not Error.                    *)
C6_ZeroUnlessError == state # Error => errCount = 0

(* C7: an observer that has been deregistered gets no event of a           *)
(* transition made after the deregistration; deregistering a handle that   *)
(* is not registered can always be done and changes nothing.               *)
C7_NoEventAfterDeregister ==
    /\ \A o \in 1..nObs :
          deregAt[o] # NotYet =>
             \A k \in Got(o) \cup OnTheWay(o) : k <= deregAt[o]
    /\ \A t \in TokenSpace :
          callbacks[t] = NoCb =>
             /\ ENABLED DeregisterCallback(t)
             /\ ~ENABLED (DeregisterCallback(t) /\ vars' # vars)

C7_Witness ==
    \E o \in 1..nObs :
        /\ deregAt[o] # NotYet
        /\ Got(o) # {}
        /\ \E k \in Accepted : k > deregAt[o]

(* C8: an accepted transition call has returned only if every observer     *)
(* registered when the transition was committed has finished handling its  *)
(* event.                                                                  *)
C8_ReturnAfterDelivery ==
    \A k \in Accepted :
        k \notin calls =>
            \A o \in Registered(history[k].before.callbacks) : k \in Got(o)

C8_Witness ==
    \E k \in Accepted :
        /\ k \notin calls
        /\ Registered(history[k].before.callbacks) # {}

(* C9: delivery is not serialized across transitions: while the wave of a  *)
(* transition A is in progress another caller can commit a transition B,   *)
(* and any event on its way can be handled next, B's before A's.           *)
C9_NotSerialized ==
    /\ (calls # {} /\ Cardinality(calls) < NumCallers /\ Len(history) < MaxCalls) =>
          \A in \in CallInputs(variant) : ENABLED Call(in)
    /\ \A d \in inflight : ENABLED Deliver(d)

C9_Witness ==
    \E d \in inflight : \E r \in received[d.obs] :
        /\ r.seq > d.seq
        /\ d.seq \in calls

(* C10: SetState with a state outside the enumeration panics with          *)
(* "undefined" whatever the current state and error, changes neither the   *)
(* state, the error nor the subscriptions, and sends no notification.      *)
C10_UndefinedRejected ==
    \A k \in Calls :
        history[k].in.newState \notin names =>
            /\ history[k].outcome = UndefinedPanic
            /\ history[k].after = history[k].before
            /\ EventsOf(k) = {}

C10_Witness ==
    \E k \in Calls :
        /\ history[k].in.newState \notin names
        /\ history[k].before.state = Stopped
        /\ history[k].in.newErr # Nil

-----------------------------------------------------------------------------
(* What the properties of the Collection read off its last recomputation *)

\* a stateChanged call has come to its end
Recomputed == sc.pc \in {"idle", "wait"} /\ sc.outcome # "none"
\* and it got as far as the call of c.Monitor
Transitioned == Recomputed /\ sc.outcome \notin {"empty", "initializing"}
FoundStates == {sc.found[l] : l \in DOMAIN sc.found}
FoundIn(s) == {l \in DOMAIN sc.found : sc.found[l] = s}
Hooked(i) == CollectionId \in member[i].callbacks
\* nothing is on its way to the Collection and no recomputation is running
Quiet == notes = 0 /\ runs.pending = 0 /\ LockFree

C12_AnyErrorIsError ==
    (Recomputed /\ Error \in FoundStates) => state = Error

(* C13: when a recomputation ends with the composite in Error because      *)
(* members are erroring, Err() is the CollectionError of exactly the       *)
(* members found in Error, each with its error, also when the composite    *)
(* was in Error before and when a single member is erroring.               *)
C13_AggregateError ==
    (Transitioned /\ DOMAIN sc.errs # {} /\ state = Error) =>
        /\ DOMAIN sc.errs = FoundIn(Error)
        /\ err = CollectionError(sc.errs)

(* C14: a recomputation that finds no member Initializing or in Error, and *)
(* some but not all members Stopped, leaves the composite in Error with    *)
(* ErrStoppedServices.                                                     *)
C14_PartialStop ==
    (Transitioned /\ FoundStates = {Ready, Stopped}) =>
        (state = Error /\ err = ErrStoppedServices)

(* C15: a recomputation that finds every member Stopped leaves the         *)
(* composite Stopped, and a recomputation makes the composite Stopped only *)
(* when every member it watches is Stopped.                                *)
C15_StoppedIffAllStopped ==
    Transitioned =>
        /\ FoundStates = {Stopped} => state = Stopped
        /\ (state = Stopped /\ sc.old # Stopped) =>
               \A l \in Bound(services) :
                   l \in DOMAIN sc.found => member[services[l]].state = Stopped
        /\ (state = Stopped /\ sc.old # Stopped) => sc.todo = {}

C15_Witness ==
    /\ Transitioned /\ FoundStates = {Stopped}
    /\ sc.old = Ready /\ state = Stopped
    /\ DOMAIN sc.found = Labels

(* C16: with no member notification pending or in flight the composite is  *)
(* Ready only if every member is Ready, and a recomputation that finds all *)
(* members Ready leaves the composite Ready.                               *)
C16_ReadyOnlyIfAllReady ==
    /\ (Quiet /\ state = Ready) =>
           \A l \in Bound(services) : member[services[l]].state = Ready
    /\ (Transitioned /\ FoundStates = {Ready}) => state = Ready

(* C17: until Run() has been called no recomputation is started, the       *)
(* composite stays Initializing with a nil error, and no event is sent to  *)
(* or handled by an observer of the Collection, whatever transitions the   *)
(* added members make.                                                     *)
C17_NothingBeforeRun ==
    runs.made = 0 =>
        /\ state = Initializing /\ err = Nil
        /\ notes = 0 /\ sc = NoScan
        /\ inflight = {}
        /\ \A o \in Observers : handled[o] = 0 /\ received[o] = {}

C17_Witness ==
    /\ runs.made = 0
    /\ memberCalls > 0
    /\ Bound(services) = Labels
    /\ \A l \in Labels : member[services[l]].state = Ready
    /\ Registered(callbacks) # {}

(* C18: a Collection without members is Initializing with a nil error and  *)
(* an empty Up() mapping, before and after any number of Run() calls.      *)
C18_EmptyStaysInitializing ==
    Bound(services) = {} =>
        /\ state = Initializing /\ err = Nil
        /\ DOMAIN Up(services, member) = {}

C18_Witness ==
    /\ Bound(services) = {}
    /\ runs.made = MaxRuns /\ runs.pending = 0
    /\ sc.outcome = "empty" /\ sc.pc = "idle"

(* C19: Add with a label that is bound panics with a message naming the    *)
(* label and leaves the member map, the members' registrations and the     *)
(* composite state as they are; a bound label is never bound again.        *)
C19_DuplicateLabelRefused ==
    /\ [](\A l \in Labels : \A i \in Members :
             services[l] # NoService =>
                Add(services, running, member, l, i).outcome = AddPanic(l))
    /\ [][/\ adds'.dups # adds.dups =>
                /\ services[adds'.last.label] # NoService
                /\ adds'.last.outcome = AddPanic(adds'.last.label)
                /\ services' = services /\ member' = member
                /\ state' = state /\ err' = err /\ callbacks' = callbacks
          /\ \A l \in Labels : services[l] # NoService => services'[l] = services[l]]_vars

C19_Witness ==
    /\ adds.dups > 0
    /\ services[adds.last.label] # adds.last.service
    /\ Hooked(services[adds.last.label])
    /\ state = Ready

(* C20: a service added after Run() is registered with at once: from the   *)
(* first Run() on, the Collection is registered with every service it      *)
(* holds.                                                                  *)
C20_AddAfterRunSubscribes ==
    runs.made > 0 => \A l \in Bound(services) : Hooked(services[l])

(* C21: a second or later Run() changes nothing: when the recomputation it *)
(* starts computes the state and error the composite already has, the      *)
(* composite keeps them and no transition is made, so that observers of    *)
(* the Collection see no event that a single Run() would not have caused.  *)
C21_RunAgainIsSilent ==
    (/\ Transitioned /\ sc.src = "Run" /\ runs.made > 1
     /\ decide(sc).newState = sc.old
     /\ sc.old = Error => decide(sc).newErr = sc.oldErr)
    => (sc.outcome = "noop" /\ state = sc.old /\ err = sc.oldErr)

(* C22: when Collection.Stop() returns, every service that was in the      *)
(* Collection is Stopped, and if there was one the composite state is      *)
(* Stopped, whether or not Run() had been called.                          *)
C22_StopStopsAll ==
    stopc.pc = "returned" =>
        /\ \A i \in stopc.members : member[i].state = Stopped
        /\ stopc.members # {} => state = Stopped

(* C24: Up() returns, for exactly the labels in the Collection, whether    *)
(* the service is Ready, and changes neither the Collection nor a service; *)
(* once Collection.Stop() has returned it reports no service it stopped    *)
(* as up.                                                                  *)
C24_UpReportsReady ==
    /\ [](stopc.pc = "returned" =>
             \A l \in Bound(services) :
                 services[l] \in stopc.members => ~Up(services, member)[l])
    /\ [][ups' # ups =>
             /\ DOMAIN ups' = {l \in Labels : services[l] # NoService}
             /\ \A l \in DOMAIN ups' : ups'[l] <=> member[services[l]].state = Ready
             /\ UNCHANGED <<services, running, member, notes, sc, runs, adds, stopc>>
             /\ UNCHANGED monVars]_vars

C24_Witness ==
    /\ stopc.pc = "returned"
    /\ DOMAIN ups = Labels
    /\ \A l \in Labels : ~ups[l]
    /\ runs.made > 0

(* C28: a recomputation that meets an Initializing member while no member  *)
(* is in Error leaves the composite Initializing, also when that member    *)
(* was added after the composite had been computed from earlier members.   *)
C28_InitializingDefers ==
    (/\ Recomputed /\ sc.outcome = "initializing"
     /\ \A l \in Bound(services) : member[services[l]].state # Error)
    => state = Initializing

(* C30: while a composite transition waits for the observers of the        *)
(* Collection, the Collection's lock is free, so that an observer calling  *)
(* Up() on the Collection from its callback returns.                       *)
C30_UpInsideObserver ==
    inflight # {} => LockFree

(* C29: the Monitor's lock is never held while a transition waits for its  *)
(* observers: a callback that calls SetReady / SetError / Stop on the      *)
(* Monitor gets in and every callback completes; GetState() called inside  *)
(* a callback returns a state at least as recent as the event's NewState.  *)
C29_CallbackMayCallMonitor ==
    /\ [](/\ \A k \in calls : mu # k
          /\ \A d \in inflight \ Blocked :
                /\ ENABLED Deliver(d)
                /\ (Cardinality(calls) < NumCallers /\ Len(history) < MaxCalls) =>
                      \A in \in CallInputs(variant) : ENABLED CallbackCall(d, in)
          /\ \A d \in inflight :
                /\ d.seq <= Len(history)
                /\ d.ev.NewState = history[d.seq].after.state
                /\ state = history[Len(history)].after.state)
    /\ (inflight # {} ~> inflight = {})

C29_Witness ==
    \E b \in reent :
        /\ b.d \in inflight
        /\ b.k > b.d.seq
        /\ history[b.k].outcome = "accepted"
        /\ WaitDone(b.k)

(* C26: in the Collection of collection.go, Add(label2, s) panics when the  *)
(* service s has already been added to the Collection under another label. *)
C26_AddTwicePanics ==
    ch.again => ch.added.outcome # AddOk

(* C23: once Stop() of the Collection of collection.go has started, nothing *)
(* raises a fault: no send on and no close of the closed update channel,   *)
(* no transition of the stopped composite; and once the composite is       *)
(* Stopped it stays Stopped.                                               *)
C23_StopIsFinal ==
    /\ ch.stop # "none" => ch.fault = NoFault
    /\ ch.stop = "returned" => state = Stopped

(* C25: in the Collection of collection.go, when every notification has    *)
(* been processed the composite state is Stopped if a service is Stopped,  *)
(* else Ready if every service is Ready, else NotReady; the composite      *)
(* error is always nil; and as long as Stop() is not called on the         *)
(* Collection no transition of a service raises a fault, the composite     *)
(* being Stopped or not.                                                   *)
C25_OverallState ==
    /\ err = Nil
    /\ ch.stop = "none" => ch.fault = NoFault
    /\ (ch.stop = "none" /\ ch.updates = "open" /\ ch.sends = 0 /\ ch.loop = "recv") =>
          LET states == {member[services[l]].state : l \in Bound(services)}
          IN  state = IF Stopped \in states THEN Stopped
                      ELSE IF states = {Ready} THEN Ready
                      ELSE NotReady

C25_Witness ==
    /\ ch.stop = "none" /\ ch.updates = "open" /\ ch.sends = 0 /\ ch.loop = "recv"
    /\ state = Stopped
    /\ ch.last = "noop"
    /\ memberCalls > 0
    /\ \E l \in Bound(services) : member[services[l]].state = Ready

(* C27: with callers changing the state of the services of a running       *)
(* Collection, asking which are up and stopping it, and with observers     *)
(* that return, every transition call, every recomputation and Stop()      *)
(* return in the end, and the Collection's lock is free again.             *)
C27_NoDeadlock ==
    <>[](/\ notes = 0 /\ runs.pending = 0
         /\ inflight = {}
         /\ LockFree
         /\ stopc.pc # "wait" /\ stopc.pending = 0)

(* C32: in the Monitor that compares errors, SetError(e) while the state is *)
(* Error and Err() is e changes no field and sends no event; SetError(e2)  *)
(* with another error while in Error is accepted: Err() becomes e2 and     *)
(* each observer gets one event with OldState = NewState = Error and       *)
(* Error = e2.                                                             *)
C32_ErrorIdentity ==
    \A k \in Calls :
        (history[k].in.op = "SetError" /\ history[k].before.state = Error) =>
            IF history[k].in.newErr = history[k].before.err
            THEN /\ history[k].outcome = "noop"
                 /\ history[k].after = history[k].before
                 /\ EventsOf(k) = {}
            ELSE /\ history[k].outcome = "accepted"
                 /\ history[k].after.state = Error
                 /\ history[k].after.err = history[k].in.newErr
                 /\ \A o \in Registered(history[k].before.callbacks) :
                       Cardinality({d \in inflight : d.seq = k /\ d.obs = o})
                          + Cardinality({r \in received[o] : r.seq = k}) = 1
                 /\ \A x \in EventsOf(k) :
                       /\ x.ev.OldState = Error /\ x.ev.NewState = Error
                       /\ x.ev.Error = history[k].in.newErr

C35_FreshToken ==
    /\ rg.last.op = "Register" =>
          /\ rg.last.before[rg.last.token] = NoCb
          /\ \A t \in Tokens \ {rg.last.token} : rg.callbacks[t] = rg.last.before[t]
    /\ rg.last.op = "Deregister" =>
          /\ rg.callbacks[rg.last.token] = NoCb
          /\ \A t \in Tokens \ {rg.last.token} : rg.callbacks[t] = rg.last.before[t]
    /\ \A f \in Funcs :
          IF rg.tokenOf[f] = NoToken
          THEN \A t \in Tokens : rg.callbacks[t] # f
          ELSE /\ rg.callbacks[rg.tokenOf[f]] = f
               /\ \A t \in Tokens \ {rg.tokenOf[f]} : rg.callbacks[t] # f

C35_Witness ==
    /\ rg.last.op = "Deregister"
    /\ rg.last.before[rg.last.token] # NoCb
    /\ \E t \in Tokens : rg.callbacks[t] # NoCb
    /\ \E f \in Funcs : rg.tokenOf[f] = NoToken

(* C36: errCount saturates: a SetError on a Monitor whose errCount is the  *)
(* largest int leaves it there, errCount is never negative nor smaller     *)
(* after a SetError than before, and the event of that transition carries  *)
(* the saturated count.                                                    *)
C36_ErrCountSaturates ==
    /\ errCount >= 0 /\ errCount <= MaxInt
    /\ \A k \in Calls :
          history[k].in.op = "SetError" =>
             /\ history[k].after.errCount >= history[k].before.errCount
             /\ history[k].before.errCount = MaxInt =>
                   /\ history[k].after.errCount = MaxInt
                   /\ history[k].before.state # Stopped =>
                         /\ history[k].outcome = "accepted"
                         /\ \A o \in Registered(history[k].before.callbacks) :
                               \E e \in EventsOf(k) : e.ev.ErrCount = MaxInt
                         /\ \A e \in EventsOf(k) : e.ev.ErrCount = MaxInt

C36_Witness ==
    \E k \in Calls :
        /\ history[k].in.op = "SetError"
        /\ history[k].before.errCount = MaxInt
        /\ errCount = MaxInt
        /\ \E o \in 1..nObs : \E r \in received[o] : r.seq = k /\ r.ev.ErrCount = MaxInt

\* the aggregation policy applied to the states the services are in now
PolicyNow ==
    LET st(l) == member[services[l]]
        erring == {l \in Bound(services) : st(l).state = Error}
        states == {st(l).state : l \in Bound(services)}
    IN  IF erring # {}
        THEN [state |-> Error, err |-> CollectionError([l \in erring |-> st(l).err])]
        ELSE IF Initializing \in states THEN [state |-> Initializing, err |-> Nil]
        ELSE IF states = {Stopped} THEN [state |-> Stopped, err |-> Nil]
        ELSE IF Stopped \in states THEN [state |-> Error, err |-> ErrStoppedServices]
        ELSE [state |-> Ready, err |-> Nil]

\* Run() has returned, every service is watched, every transition call on a
\* service has returned and every recomputation it set off is over
AllReturned ==
    /\ Running /\ Quiet /\ ~crashed
    /\ memberCalls > 0
    /\ sc.pc = "idle" /\ inflight = {}
    /\ Bound(services) # {}
    /\ \A l \in Bound(services) : Hooked(services[l])

(* C31: in a running Collection, once every transition call of its members *)
(* has returned, the composite state and error are what the aggregation    *)
(* policy gives for the members' final states: no transition is lost and   *)
(* no recomputation from an older reading overwrites a newer one.          *)
C31_EventuallyConsistent ==
    AllReturned =>
        /\ state = PolicyNow.state
        /\ state = Error => err = PolicyNow.err

====
